---- MODULE Spec2Model ----
(***************************************************************************)
(* PVDetector (src/PVDetector.py): classification of FlowDroid leaks       *)
(* against a privacy policy.  Python strings are modelled as sequences of  *)
(* one-character strings, so that the regular expressions and the          *)
(* substring tests of the source are computed character by character.      *)
(* The alphabet used for the inputs has no regular-expression              *)
(* metacharacter, so a phrase interpolated into a pattern (lines 70, 130)  *)
(* matches literally.                                                      *)
(***************************************************************************)
EXTENDS Naturals, Sequences, FiniteSets, TLC

VARIABLES
    pc,                \* position of the process inside detect()
    run,               \* 1 for the first process, 2 for the re-run on the same inputs
    fd_out,            \* the report: Statement attributes of Results/Result/Sources/Source, document order
    mappings_file,     \* text of the mappings file
    policy_file,       \* text of the policy file, or NoPath when -p is not given
    ontology_file,     \* the loaded ontology: normalized key -> set of ancestor IRIs
    opened,            \* the files this process has opened so far, in order
    extracted,         \* get_leaks(dataflows), line 17
    leaks,             \* the local variable leaks of detect()
    mappings,          \* the local variable mappings of detect()
    privacy_policy,    \* the local variable privacy_policy of detect()
    policy_phrases,    \* the local variable policy_phrases of detect() (used as a set only)
    idx,               \* number of leaks the loop of filter_implicit has finished
    order,             \* iteration order this process uses for each leak's phrase set
    strong_violations, \* list, line 116
    weak_violations,   \* dict as a sequence of <<key, value>> in insertion order, line 115
    stdout,            \* lines printed by lines 45-48
    status,            \* exit status of the process, NoStatus while it runs
    error,             \* the exception that ended the process, "" if none
    prev,              \* outcome of the first process, kept for the comparison with the re-run
    call,              \* arguments of a single function call (function-level specifications)
    ret                \* its return value

vars == <<pc, run, fd_out, mappings_file, policy_file, ontology_file, opened,
          extracted, leaks, mappings, privacy_policy, policy_phrases, idx, order,
          strong_violations, weak_violations, stdout, status, error, prev, call, ret>>

(***************************************************************************)
(* Characters and strings                                                  *)
(***************************************************************************)
NL == "\n"
QUOTE == "\""

\* Characters that are not \w for the re module; every other character of the
\* alphabet is a letter or the underscore.
NonWordChars == {" ", "<", ">", QUOTE, ",", NL, "#", ":"}

IsWordChar(c) == c \notin NonWordChars

\* str.lower() on one character
LowerChar(c) ==
    CASE c = "P" -> "p"
      [] c = "Q" -> "q"
      [] c = "U" -> "u"
      [] c = "T" -> "t"
      [] c = "I" -> "i"
      [] OTHER -> c

\* str.lower()
Lower(s) == [i \in 1..Len(s) |-> LowerChar(s[i])]

\* str.replace(a, b) for single characters a, b
ReplaceChar(s, a, b) == [i \in 1..Len(s) |-> IF s[i] = a THEN b ELSE s[i]]

\* s[i:j] with 1-based inclusive bounds, empty when j < i
Slice(s, i, j) == IF j < i THEN <<>> ELSE SubSeq(s, i, j)

\* Python's  a in b  for strings
StrIn(a, b) ==
    \E i \in 0..Len(b) : i + Len(a) <= Len(b) /\ Slice(b, i + 1, i + Len(a)) = a

\* positions of character c in s
Positions(s, c) == {i \in 1..Len(s) : s[i] = c}

Max(S) == CHOOSE x \in S : \A y \in S : y <= x
Min(S) == CHOOSE x \in S : \A y \in S : x <= y

\* str.splitlines() for texts whose only line break is "\n"
RECURSIVE SplitLines(_)
SplitLines(text) ==
    IF text = <<>> THEN <<>>
    ELSE IF Positions(text, NL) = {} THEN <<text>>
    ELSE LET n == Min(Positions(text, NL))
         IN  <<Slice(text, 1, n - 1)>> \o SplitLines(Slice(text, n + 1, Len(text)))

\* "\n".join(lines)
RECURSIVE JoinLines(_)
JoinLines(lines) ==
    IF lines = <<>> THEN <<>>
    ELSE IF Len(lines) = 1 THEN lines[1]
    ELSE lines[1] \o <<NL>> \o JoinLines(Tail(lines))

\* set(list)
Range(s) == {s[i] : i \in 1..Len(s)}

\* \b at the gap after position p of t (p = 0 is the start of the string)
WordBoundary(t, p) ==
    LET before == p >= 1 /\ IsWordChar(t[p])
        after == p + 1 <= Len(t) /\ IsWordChar(t[p + 1])
    IN  before # after

\* re.search(r"\b%s\b" % a, text, re.I) is not None, for a without metacharacters
SearchWord(a, text) ==
    \E i \in 0..Len(text) :
        /\ i + Len(a) <= Len(text)
        /\ Lower(Slice(text, i + 1, i + Len(a))) = Lower(a)
        /\ WordBoundary(text, i)
        /\ WordBoundary(text, i + Len(a))

(***************************************************************************)
(* The functions of the source                                             *)
(***************************************************************************)

\* Line 59: re.sub(r"^.*<(.+)>.*$", r"\1", a).  Both .* and .+ are greedy and
\* the leading .* is tried first, so the "<" taken is the last one that still
\* has a character and then a ">" after it, and the ">" taken is the last one.
\* A value the pattern does not match is returned as it is.
StatementToLeak(a) ==
    LET closes == Positions(a, ">")
        opens == {i \in Positions(a, "<") : \E j \in closes : j >= i + 2}
    IN  IF opens = {} THEN a
        ELSE Slice(a, Max(opens) + 1, Max(closes) - 1)

\* Lines 57-59: one identifier per Source element, in document order
get_leaks(sources) == [i \in 1..Len(sources) |-> StatementToLeak(sources[i])]

\* A line that starts at position p of text ends at this position (p - 1 for
\* an empty line)
LineEndAt(text, p) ==
    LET nls == {n \in Positions(text, NL) : n >= p}
    IN  IF nls = {} THEN Len(text) ELSE Min(nls) - 1

\* Lines 69, 102: the pattern ^"([^"]+)",.*$ tried at a line start p.  [^"]+
\* runs to the next quote (and over line breaks), which a comma must follow;
\* .*$ then runs to the end of that line.  The result is <<matched, first
\* position of the group, last position of the group, last position of the
\* match>>.
PhrasePattern(text, p) ==
    LET quotes == {q \in Positions(text, QUOTE) : q > p}
        q == Min(quotes)
    IN  IF /\ p <= Len(text)
           /\ text[p] = QUOTE
           /\ quotes # {}
           /\ q >= p + 2
           /\ q + 1 <= Len(text)
           /\ text[q + 1] = ","
        THEN <<TRUE, p + 1, q - 1, LineEndAt(text, q + 1)>>
        ELSE <<FALSE, 0, 0, 0>>

\* Line 69: re.sub(r'^"([^"]+)",.*$', r"\1", mappings, flags=re.M), from the
\* line start p on.  A line the pattern does not match is copied.
RECURSIVE SubPhrasesFrom(_, _)
SubPhrasesFrom(text, p) ==
    IF p > Len(text) THEN <<>>
    ELSE LET m == PhrasePattern(text, p)
             e == IF m[1] THEN m[4] ELSE LineEndAt(text, p)
             piece == IF m[1] THEN Slice(text, m[2], m[3]) ELSE Slice(text, p, e)
         IN  IF e + 1 > Len(text) THEN piece
             ELSE piece \o <<NL>> \o SubPhrasesFrom(text, e + 2)

\* Line 102: re.sub(r'^"([^"]+)",.*$', r"\1", a) on one line a
PhraseOfLine(a) == SubPhrasesFrom(a, 1)

\* Lines 69-70
get_policy_phrases(policy, mappingText) ==
    LET mappings_phrases == Range(SplitLines(SubPhrasesFrom(mappingText, 1)))
    IN  {a \in mappings_phrases : SearchWord(a, policy)}

\* Line 101 with the test turned round:  a in method
matched_mappings_reversed(method, mappingText) ==
    {a \in Range(SplitLines(mappingText)) : StrIn(a, method)}

\* Line 101: the lines of the mapping text that contain the method
matched_mappings(method, mappingText) ==
    {a \in Range(SplitLines(mappingText)) : StrIn(method, a)}

\* Lines 101-102
phrases_from_method(method, mappingText) ==
    {PhraseOfLine(a) : a \in matched_mappings(method, mappingText)}

\* Lines 81-91 without the test of line 88: every leak is kept
filter_explicit_keeps_all(leakSeq, mappingText, policyPhrases) == leakSeq

\* Lines 81-91 with  return explicit  in line 82
filter_explicit_returns_explicit(leakSeq, mappingText, policyPhrases) ==
    IF policyPhrases = {} \/ mappingText = <<>> THEN <<>>
    ELSE LET Keep(leak) ==
                 phrases_from_method(leak, mappingText) \cap policyPhrases = {}
         IN  SelectSeq(leakSeq, Keep)

\* Lines 81-91
filter_explicit(leakSeq, mappingText, policyPhrases) ==
    IF policyPhrases = {} \/ mappingText = <<>> THEN leakSeq
    ELSE LET Keep(leak) ==
                 phrases_from_method(leak, mappingText) \cap policyPhrases = {}
         IN  SelectSeq(leakSeq, Keep)

\* Line 126: re.sub(r"^.+#(.*)$", r"\1", a.iri): what follows the last "#"
\* that has at least one character before it
IriLocalName(iri) ==
    LET hashes == {i \in Positions(iri, "#") : i >= 2}
    IN  IF hashes = {} THEN iri ELSE Slice(iri, Max(hashes) + 1, Len(iri))

\* Line 122: phrase.lower().replace(" ", "_")
OntologyKey(phrase) == ReplaceChar(Lower(phrase), " ", "_")

THING == <<"t", "h", "i", "n", "g">>
INFORMATION == <<"i", "n", "f", "o", "r", "m", "a", "t", "i", "o", "n">>

\* Lines 126-130 for a phrase the ontology has an entity for: the local names
\* of the ancestors, without thing and information, that occur in the policy
abstract_phrases(onto, phrase, policy) ==
    LET names == {IriLocalName(iri) : iri \in onto[OntologyKey(phrase)]}
        kept == {a \in names : Lower(a) \notin {THING, INFORMATION}}
    IN  {a \in kept : SearchWord(ReplaceChar(a, "_", " "), policy)}

\* Lines 120-133 without the break of line 133: a later phrase with an
\* occurring ancestor overwrites the entry
RECURSIVE VisitPhrasesNoBreak(_, _, _)
VisitPhrasesNoBreak(onto, phraseSeq, policy) ==
    IF phraseSeq = <<>> THEN [kind |-> "none", phrases |-> {}]
    ELSE IF OntologyKey(Head(phraseSeq)) \notin DOMAIN onto
         THEN [kind |-> "AttributeError", phrases |-> {}]
    ELSE LET found == IF onto[OntologyKey(Head(phraseSeq))] = {} THEN {}
                      ELSE abstract_phrases(onto, Head(phraseSeq), policy)
             later == VisitPhrasesNoBreak(onto, Tail(phraseSeq), policy)
         IN  IF later.kind # "none" THEN later
             ELSE IF found # {} THEN [kind |-> "weak", phrases |-> found]
             ELSE later

\* Lines 120-133: the phrases of one leak visited in the order phraseSeq.
\* ontology[name] is None for a name the ontology has no entity for, and
\* None.ancestors() raises AttributeError.
RECURSIVE VisitPhrases(_, _, _)
VisitPhrases(onto, phraseSeq, policy) ==
    IF phraseSeq = <<>> THEN [kind |-> "none", phrases |-> {}]
    ELSE IF OntologyKey(Head(phraseSeq)) \notin DOMAIN onto
         THEN [kind |-> "AttributeError", phrases |-> {}]
    ELSE IF onto[OntologyKey(Head(phraseSeq))] = {}
         THEN VisitPhrases(onto, Tail(phraseSeq), policy)
    ELSE LET found == abstract_phrases(onto, Head(phraseSeq), policy)
         IN  IF found # {} THEN [kind |-> "weak", phrases |-> found]
             ELSE VisitPhrases(onto, Tail(phraseSeq), policy)

\* The keys of the dict, and dict[key] = value (an existing key keeps its place)
Keys(dict) == {dict[i][1] : i \in 1..Len(dict)}

DictGet(dict, key) == dict[CHOOSE i \in 1..Len(dict) : dict[i][1] = key][2]

DictSet(dict, key, value) ==
    IF key \in Keys(dict)
    THEN [i \in 1..Len(dict) |-> IF dict[i][1] = key THEN <<key, value>> ELSE dict[i]]
    ELSE Append(dict, <<key, value>>)

\* The orders in which a set can be iterated
Orders(S) == {s \in [1..Cardinality(S) -> S] : Range(s) = S}

(***************************************************************************)
(* Inputs                                                                  *)
(***************************************************************************)
MaxSources == 2
MaxLines == 2

SeqUpTo(S, n) == UNION {[1..k -> S] : k \in 0..n}

\* Statement attributes:  r<f>  and  <g>
Statements == {<<"r", "<", "f", ">">>, <<"<", "g", ">">>}

\* The reports: a well-formed document with up to MaxSources Source
\* elements, or a text that is not well-formed XML
Reports ==
    {[wellformed |-> TRUE, sources |-> ss] : ss \in SeqUpTo(Statements, MaxSources)}
        \cup {[wellformed |-> FALSE, sources |-> <<>>]}

\* Mapping lines:  "p",<f>   "q",<f>   "P d",<g>   the line  f  that has
\* not the shape "<phrase>",<pattern>, and the blank line
LinePF == <<QUOTE, "p", QUOTE, ",", "<", "f", ">">>
LineQF == <<QUOTE, "q", QUOTE, ",", "<", "f", ">">>
LinePdG == <<QUOTE, "P", " ", "d", QUOTE, ",", "<", "g", ">">>
LineBare == <<"f">>
LineBlank == <<>>

MappingLines == {LinePF, LineQF, LinePdG, LineBare, LineBlank}

MappingTexts == {JoinLines(ls) : ls \in SeqUpTo(MappingLines, MaxLines)}

\* Policy texts:  "U d, v"  "q f"  "information v";
\* no -p option stands for the blank policy
Policies ==
    { <<"U", " ", "d", ",", " ", "v">>,
      <<"q", " ", "f">>,
      INFORMATION \o <<" ", "v">> }

PolicyOptions == {<<>>} \cup {<<t>> : t \in Policies}

\* IRIs  o#<name>  of the ontology and  w#Thing  of owl:Thing
Iri(name) == <<"o", "#">> \o name
IriThing == <<"w", "#", "T", "h", "i", "n", "g">>

\* ancestors() of an entity holds the entity itself and owl:Thing
OntologyFull ==
    (<<"p">> :> {Iri(<<"p">>), Iri(<<"u", "_", "d">>), Iri(INFORMATION), IriThing})
    @@ (<<"p", "_", "d">> :> {Iri(<<"p", "_", "d">>), Iri(<<"U", "_", "d">>), IriThing})
    @@ (<<"q">> :> {Iri(<<"q">>), Iri(<<"v">>), Iri(<<"I">> \o Tail(INFORMATION)), IriThing})

\* an ontology without the terms q and p_d
OntologySmall ==
    (<<"p">> :> {Iri(<<"p">>), Iri(<<"u", "_", "d">>), IriThing})

Ontologies == {OntologyFull, OntologySmall}

(***************************************************************************)
(* detect()                                                                *)
(***************************************************************************)
ExitOK == 0
ExitIOError == 255
ExitUncaught == 1

NoCall == <<>>

Locals0 ==
    /\ opened = <<>>
    /\ extracted = <<>>
    /\ leaks = <<>>
    /\ mappings = <<>>
    /\ privacy_policy = <<>>
    /\ policy_phrases = {}
    /\ idx = 0
    /\ order = <<>>
    /\ strong_violations = <<>>
    /\ weak_violations = <<>>
    /\ stdout = <<>>
    /\ status = {}
    /\ error = ""

Init ==
    /\ pc = "start"
    /\ run = 1
    /\ fd_out \in Reports
    /\ mappings_file \in MappingTexts
    /\ policy_file \in PolicyOptions
    /\ ontology_file \in Ontologies
    /\ Locals0
    /\ prev = <<>>
    /\ call = NoCall
    /\ ret = <<>>

Inputs == <<fd_out, mappings_file, policy_file, ontology_file, run, prev, call, ret>>

\* The process ends with this exit status
Exit(code, exception) ==
    /\ pc' = "exit"
    /\ status' = {code}
    /\ error' = exception

\* Lines 18-19 left out
AfterGetLeaksNoExit(ls) == "read_mappings"

\* Lines 18-19: sys.exit() when there is no leak (SystemExit is no IOError)
AfterGetLeaks(ls) == IF ls = <<>> THEN "exit" ELSE "read_mappings"

\* Lines 15-19, the report is well-formed
ReadReport ==
    /\ pc = "start"
    /\ fd_out.wellformed
    /\ opened' = Append(opened, "fd_out")
    /\ extracted' = get_leaks(fd_out.sources)
    /\ leaks' = extracted'
    /\ pc' = AfterGetLeaks(leaks')
    /\ status' = IF pc' = "exit" THEN {ExitOK} ELSE status
    /\ UNCHANGED <<Inputs, mappings, privacy_policy, policy_phrases, idx, order,
                   strong_violations, weak_violations, stdout, error>>

\* Line 57: ET.fromstring raises ParseError, which nothing catches
ReportParseError ==
    /\ pc = "start"
    /\ ~fd_out.wellformed
    /\ opened' = Append(opened, "fd_out")
    /\ Exit(ExitUncaught, "ParseError")
    /\ UNCHANGED <<Inputs, extracted, leaks, mappings, privacy_policy, policy_phrases,
                   idx, order, strong_violations, weak_violations, stdout>>

\* Lines 20-22, 27-29, 35-37: the file cannot be opened (the files that the
\* first process could open are there for the second one)
OpenFails(at) ==
    /\ pc = at
    /\ run = 1
    /\ at = "read_policy" => policy_file # <<>>
    /\ Exit(ExitIOError, "IOError")
    /\ UNCHANGED <<Inputs, opened, extracted, leaks, mappings, privacy_policy,
                   policy_phrases, idx, order, strong_violations, weak_violations,
                   stdout>>

\* Lines 25-26
ReadMappings ==
    /\ pc = "read_mappings"
    /\ opened' = Append(opened, "mappings_path")
    /\ mappings' = mappings_file
    /\ pc' = "read_policy"
    /\ UNCHANGED <<Inputs, extracted, leaks, privacy_policy, policy_phrases, idx, order,
                   strong_violations, weak_violations, stdout, status, error>>

\* Lines 31-39
ReadPolicy ==
    /\ pc = "read_policy"
    /\ IF policy_file # <<>>
       THEN /\ opened' = Append(opened, "privacy_policy_path")
            /\ privacy_policy' = policy_file[1]
       ELSE /\ opened' = opened
            /\ privacy_policy' = <<>>
    /\ pc' = "get_policy_phrases"
    /\ UNCHANGED <<Inputs, extracted, leaks, mappings, policy_phrases, idx, order,
                   strong_violations, weak_violations, stdout, status, error>>

\* Line 41
GetPolicyPhrases ==
    /\ pc = "get_policy_phrases"
    /\ policy_phrases' = get_policy_phrases(privacy_policy, mappings)
    /\ pc' = "filter_explicit"
    /\ UNCHANGED <<Inputs, opened, extracted, leaks, mappings, privacy_policy, idx, order,
                   strong_violations, weak_violations, stdout, status, error>>

\* Line 42
FilterExplicit ==
    /\ pc = "filter_explicit"
    /\ leaks' = filter_explicit(leaks, mappings, policy_phrases)
    /\ pc' = "load_ontology"
    /\ UNCHANGED <<Inputs, opened, extracted, mappings, privacy_policy, policy_phrases,
                   idx, order, strong_violations, weak_violations, stdout, status, error>>

\* Lines 115-117
LoadOntology ==
    /\ pc = "load_ontology"
    /\ opened' = Append(opened, "ontology_path")
    /\ weak_violations' = <<>>
    /\ strong_violations' = <<>>
    /\ idx' = 0
    /\ pc' = "filter_implicit"
    /\ UNCHANGED <<Inputs, extracted, leaks, mappings, privacy_policy, policy_phrases,
                   order, stdout, status, error>>

\* Lines 131-132
WeakAfter(weak, leak, found) ==
    IF found.kind = "weak" THEN DictSet(weak, leak, found.phrases) ELSE weak

\* Lines 135-136 without the test of line 135
StrongAfterAlways(strong, weak, leak) == Append(strong, leak)

\* Lines 135-136
StrongAfter(strong, weak, leak) ==
    IF leak \notin Keys(weak) THEN Append(strong, leak) ELSE strong

\* Lines 118-136, one iteration of  for leak in leaks.  The phrases are a
\* Python set of strings: its iteration order is fixed for the process and
\* for the set, and differs between processes (string hashes are salted).
ImplicitLeak ==
    /\ pc = "filter_implicit"
    /\ idx < Len(leaks)
    /\ LET leak == leaks[idx + 1]
           leak_phrases == phrases_from_method(leak, mappings)
       IN  \E o \in (IF leak \in DOMAIN order THEN {order[leak]}
                                              ELSE Orders(leak_phrases)) :
               LET found == VisitPhrases(ontology_file, o, privacy_policy)
               IN  /\ order' = (leak :> o) @@ order
                   /\ IF found.kind = "AttributeError"
                      THEN /\ Exit(ExitUncaught, "AttributeError")
                           /\ UNCHANGED <<idx, strong_violations, weak_violations>>
                      ELSE /\ weak_violations' = WeakAfter(weak_violations, leak, found)
                           /\ strong_violations' =
                                  StrongAfter(strong_violations, weak_violations', leak)
                           /\ idx' = idx + 1
                           /\ UNCHANGED <<pc, status, error>>
    /\ UNCHANGED <<Inputs, opened, extracted, leaks, mappings, privacy_policy,
                   policy_phrases, stdout>>

\* Lines 45-48, after filter_implicit has returned
PrintViolations ==
    /\ pc = "filter_implicit"
    /\ idx = Len(leaks)
    /\ stdout' =
           [i \in 1..Len(weak_violations) |->
               <<"[WEAK VIOLATION]", weak_violations[i][1], weak_violations[i][2]>>]
           \o [i \in 1..Len(strong_violations) |->
               <<"[STRONG VIOLATION]", strong_violations[i]>>]
    /\ Exit(ExitOK, "")
    /\ UNCHANGED <<Inputs, opened, extracted, leaks, mappings, privacy_policy,
                   policy_phrases, idx, order, strong_violations, weak_violations>>

\* The tool is run again on the same files, in a new process, after a run that
\* got as far as filter_implicit
Rerun ==
    /\ pc = "exit"
    /\ run = 1
    /\ "ontology_path" \in Range(opened)
    /\ prev' = <<[status |-> status, error |-> error, stdout |-> stdout,
                  strong |-> strong_violations, weak |-> weak_violations]>>
    /\ run' = 2
    /\ pc' = "start"
    /\ opened' = <<>>
    /\ extracted' = <<>>
    /\ leaks' = <<>>
    /\ mappings' = <<>>
    /\ privacy_policy' = <<>>
    /\ policy_phrases' = {}
    /\ idx' = 0
    /\ order' = <<>>
    /\ strong_violations' = <<>>
    /\ weak_violations' = <<>>
    /\ stdout' = <<>>
    /\ status' = {}
    /\ error' = ""
    /\ UNCHANGED <<fd_out, mappings_file, policy_file, ontology_file, call, ret>>

Next ==
    \/ ReadReport
    \/ ReportParseError
    \/ \E at \in {"start", "read_mappings", "read_policy"} : OpenFails(at)
    \/ ReadMappings
    \/ ReadPolicy
    \/ GetPolicyPhrases
    \/ FilterExplicit
    \/ LoadOntology
    \/ ImplicitLeak
    \/ PrintViolations
    \/ Rerun

Spec == Init /\ [][Next]_vars

(***************************************************************************)
(* Single calls of get_leaks and of phrases_from_method                    *)
(***************************************************************************)
MaxStmtLen == 4

\* Statement attributes over the characters "<", ">" and a letter
StatementStrings == SeqUpTo({"<", ">", "a"}, MaxStmtLen)

\* Leak identifiers and patterns over two letters
Identifiers == {<<"f">>, <<"g">>, <<"f", "g">>, <<"g", "f">>, <<"f", "f">>}

\* A mapping entry and its line  "<phrase>",<pattern>
EntryPhrases == {<<"p">>, <<"f">>}
Entries == [phrase : EntryPhrases, pattern : Identifiers]
LineOf(e) == <<QUOTE>> \o e.phrase \o <<QUOTE, ",">> \o e.pattern

Unused ==
    /\ pc = "call"
    /\ run = 1
    /\ fd_out = [wellformed |-> TRUE, sources |-> <<>>]
    /\ mappings_file = <<>>
    /\ policy_file = <<>>
    /\ ontology_file = <<>>
    /\ Locals0
    /\ prev = <<>>

Pipeline == <<pc, run, fd_out, mappings_file, policy_file, ontology_file, opened,
              extracted, leaks, mappings, privacy_policy, policy_phrases, idx, order,
              strong_violations, weak_violations, stdout, status, error, prev>>

InitGetLeaks ==
    /\ Unused
    /\ call \in {[fn |-> "get_leaks", sources |-> ss] :
                    ss \in SeqUpTo(StatementStrings, MaxSources)}
    /\ ret = <<>>

\* Lines 51-59
CallGetLeaks ==
    /\ call.fn = "get_leaks"
    /\ ret = <<>>
    /\ ret' = <<get_leaks(call.sources)>>
    /\ UNCHANGED <<Pipeline, call>>

SpecGetLeaks == InitGetLeaks /\ [][CallGetLeaks]_vars

InitPhrases ==
    /\ Unused
    /\ call \in {[fn |-> "phrases_from_method", method |-> m, entries |-> es] :
                    m \in Identifiers, es \in SeqUpTo(Entries, MaxLines)}
    /\ ret = <<>>

\* The mapping text of a sequence of entries
TextOf(es) == JoinLines([i \in 1..Len(es) |-> LineOf(es[i])])

\* Lines 94-102
CallPhrasesFromMethod ==
    /\ call.fn = "phrases_from_method"
    /\ ret = <<>>
    /\ ret' = <<phrases_from_method(call.method, TextOf(call.entries))>>
    /\ UNCHANGED <<Pipeline, call>>

SpecPhrases == InitPhrases /\ [][CallPhrasesFromMethod]_vars

(***************************************************************************)
(* Properties                                                              *)
(***************************************************************************)

\* filter_implicit has been entered by this process
Classifying == "ontology_path" \in Range(opened)

\* filter_implicit has returned and detect() has printed its result
Returned == pc = "exit" /\ Classifying /\ error = ""

\* The leaks the loop of filter_implicit has finished
Done == {leaks[i] : i \in 1..idx}

\* C1: the strong violations and the keys of the weak violations are
\* disjoint, every leak the loop of filter_implicit has finished is in one of
\* the two and nothing else is, and when filter_implicit returns the loop has
\* finished every leak of its input.
C1_Partition ==
    /\ Range(strong_violations) \cap Keys(weak_violations) = {}
    /\ Range(strong_violations) \cup Keys(weak_violations) = Done
    /\ Returned => Done = Range(leaks)

\* a run that returned a weak and a strong violation
C1_Witness ==
    /\ Returned
    /\ strong_violations # <<>>
    /\ weak_violations # <<>>

\* a is a subsequence of b
RECURSIVE IsSubsequence(_, _)
IsSubsequence(a, b) ==
    IF a = <<>> THEN TRUE
    ELSE IF b = <<>> THEN FALSE
    ELSE IF Head(a) = Head(b)
         THEN IsSubsequence(Tail(a), Tail(b)) \/ IsSubsequence(a, Tail(b))
         ELSE IsSubsequence(a, Tail(b))

\* filter_explicit has returned in this process
Filtered == pc \in {"load_ontology", "filter_implicit"} \/ Classifying

\* C3: no leak that has a phrase in the policy phrases is a strong violation
\* or a key of the weak violations, and the leaks filter_explicit keeps have
\* no phrase in the policy phrases.
C3_ExplicitNeverClassified ==
    /\ \A l \in Range(strong_violations) \cup Keys(weak_violations) :
           phrases_from_method(l, mappings) \cap policy_phrases = {}
    /\ Filtered =>
           \A l \in Range(leaks) :
               phrases_from_method(l, mappings) \cap policy_phrases = {}

\* a run that dropped an explicitly disclosed leak and classified another one
C3_Witness ==
    /\ Returned
    /\ \E l \in Range(extracted) :
           phrases_from_method(l, mappings) \cap policy_phrases # {}
    /\ Range(strong_violations) \cup Keys(weak_violations) # {}

\* C4: a phrase whose normalized form names no entity of the ontology does
\* not end the run: filter_implicit goes on and returns.
C4_UnresolvedTermNoAbort == error # "AttributeError"

\* C8: when the report has no Source element the process exits with status
\* 0, has printed nothing and has opened no file but the report.
C8_EmptyLeaksShortCircuit ==
    ("fd_out" \in Range(opened) /\ fd_out.wellformed /\ fd_out.sources = <<>>) =>
        /\ pc = "exit"
        /\ status = {ExitOK}
        /\ error = ""
        /\ stdout = <<>>
        /\ opened = <<"fd_out">>

\* the process has read a report without Source elements
C8_Witness ==
    /\ "fd_out" \in Range(opened)
    /\ fd_out.wellformed
    /\ fd_out.sources = <<>>
    /\ pc = "exit"

\* C9: the leaks filter_explicit returns are a subsequence of the leaks it was
\* given, and are the leaks it was given when there is no policy phrase or
\* the mapping text is empty.
C9_FilterExplicitSubsequence ==
    Filtered =>
        /\ IsSubsequence(leaks, extracted)
        /\ (policy_phrases = {} \/ mappings = <<>>) => leaks = extracted

\* filter_explicit has dropped one of two leaks
C9_Witness ==
    /\ Filtered
    /\ Len(extracted) = 2
    /\ Len(leaks) = 1

\* The local names of the ancestors of a phrase that occur in the policy as
\* whole words, underscores read as spaces
OccurringAncestors(phrase) ==
    IF OntologyKey(phrase) \notin DOMAIN ontology_file THEN {}
    ELSE {IriLocalName(iri) : iri \in
             {a \in ontology_file[OntologyKey(phrase)] :
                 SearchWord(ReplaceChar(IriLocalName(a), "_", " "), privacy_policy)}}

\* C10: the evidence of a weak violation is the set of occurring ancestors,
\* thing and information left out, of the first phrase in iteration order
\* that has any; the phrases before it have none; a strong violation has no
\* phrase with such an ancestor.
C10_FirstMatchWins ==
    /\ \A l \in Keys(weak_violations) :
           LET evidence == DictGet(weak_violations, l)
               o == order[l]
               Informative(ph) ==
                   {a \in OccurringAncestors(ph) : Lower(a) \notin {THING, INFORMATION}}
           IN  /\ evidence # {}
               /\ \A a \in evidence : Lower(a) \notin {THING, INFORMATION}
               /\ \E i \in 1..Len(o) :
                      /\ evidence = Informative(o[i])
                      /\ \A j \in 1..(i - 1) : Informative(o[j]) = {}
    /\ \A l \in Range(strong_violations) :
           \A ph \in phrases_from_method(l, mappings) :
               {a \in OccurringAncestors(ph) : Lower(a) \notin {THING, INFORMATION}} = {}

\* a weak violation of a leak with two phrases that have different occurring
\* ancestors
C10_Witness ==
    /\ Returned
    /\ \E l \in Keys(weak_violations) :
           /\ Len(order[l]) = 2
           /\ OccurringAncestors(order[l][1]) # {}
           /\ OccurringAncestors(order[l][2]) # {}
           /\ OccurringAncestors(order[l][1]) # OccurringAncestors(order[l][2])
           /\ DictGet(weak_violations, l) = OccurringAncestors(order[l][1])

\* C7: the re-run on the same inputs returns the strong and weak violations
\* of the first run.
C7_RerunSameResult ==
    (run = 2 /\ Returned /\ prev[1].error = "") =>
        /\ strong_violations = prev[1].strong
        /\ weak_violations = prev[1].weak

\* The phrases of the lines of the shape "<phrase>",<pattern>: a quote, a
\* phrase without quote, a quote, a comma, the pattern
ShapedPhrases(text) ==
    LET lines == Range(SplitLines(text))
        Shaped(l, k) ==
            /\ l[1] = QUOTE
            /\ l[k] = QUOTE
            /\ l[k + 1] = ","
            /\ \A i \in 2..(k - 1) : l[i] # QUOTE
    IN  {Slice(l, 2, k - 1) : <<l, k>> \in
            {<<l, k>> \in lines \X (1..Len(text)) : k >= 3 /\ k + 1 <= Len(l) /\ Shaped(l, k)}}

\* C6: a line that has not the shape "<phrase>",<pattern> adds nothing to the
\* policy phrases nor to the phrases of a leak.
C6_MalformedLinesContributeNothing ==
    /\ policy_phrases \subseteq ShapedPhrases(mappings)
    /\ \A l \in Range(extracted) :
           phrases_from_method(l, mappings) \subseteq ShapedPhrases(mappings)

\* C5: for a Statement with text between its first "<" and its last ">", the
\* leak is that text; there is one leak for each Source, in document order.
C5_FirstOpenToLastClose ==
    ret # <<>> =>
        /\ Len(ret[1]) = Len(call.sources)
        /\ \A i \in 1..Len(call.sources) :
               LET a == call.sources[i]
                   opens == Positions(a, "<")
                   closes == Positions(a, ">")
               IN  (opens # {} /\ closes # {} /\ Min(opens) + 1 < Max(closes)) =>
                       ret[1][i] = Slice(a, Min(opens) + 1, Max(closes) - 1)

Occurs(x, y) ==
    \E i \in 1..(Len(y) + 1) : \E j \in (i - 1)..Len(y) :
        Slice(y, i, j) = x

====
